---- MODULE Spec2Model ----
(***************************************************************************)
(* The package build orchestrator of the interpreter: importSrc and        *)
(* importSrcArchive (src/export/sym_os_user.go, package interp part).      *)
(*                                                                         *)
(* One interpreter is shared by the sessions of `active`. Each session     *)
(* runs imports synchronously and depth-first: stack[s] is its chain of    *)
(* importSrc / importSrcArchive activations, the last one running. The     *)
(* external collaborators (ast, gta, gtaRetry, cfg, genRun, genGlobalVars, *)
(* run, skipFile, the filesystem, gzip/tar) answer nondeterministically.   *)
(***************************************************************************)
EXTENDS Integers, Sequences, FiniteSets, TLC

\* Bounds of the model.
MaxSegs == 3         \* segments of a root given to pkgDir
MaxFiles == 2        \* directory entries / archive entries looked at per import
MaxInit == 1         \* initialization nodes cfg returns for one file
MaxImports == 1      \* import declarations one declaration pass follows
RegCap == 2          \* regCount saturates here
ConcFiles == 1       \* MaxFiles of nested imports, of imports that share the interpreter, and
                     \* where an archive and a directory are both imported
MaxDirs == 2         \* directories one import path resolves to, from different roots

ArchivePath == "/"                       \* importPath of importSrcArchive
SrcPaths == {"p", "q"}                   \* import paths given to importSrc
Paths == SrcPaths \cup {ArchivePath}
mainID == "main"
Names == {mainID, "lib"}                 \* package clauses the parser reports
Sessions == {"s1", "s2"}
MaxDepth == Cardinality(Paths) + 1       \* a visiting path is rejected, so no chain is longer

Nil == "nil"
Absent == "absent"

VARIABLES
  srcPkg,      \* interp.srcPkg: path -> Nil or the package's symbol table
  pkgNames,    \* interp.pkgNames: path -> Absent or the package name
  rdir,        \* interp.rdir: the visiting set
  scopes,      \* interp.scopes: path -> Nil or the scope the declaration pass created
  mutex,       \* interp.mutex: "" or the session holding it
  frameMutex,  \* interp.frame.mutex: "" or the session holding it
  stack,       \* session -> its chain of import activations
  result,      \* session -> what its last top-level import returned
  active,      \* the sessions that use the interpreter
  universe,    \* the import paths this run imports
  pd,          \* a call of pkgDir: its arguments, the filesystem it sees and its result
  run,         \* one file set imported from a directory and from an archive: the set and the two outcomes
  srcExists,   \* the filesystem: whether resolution finds a source directory for a path
  firstName,   \* history: the name the first successful importSrc(P) returned
  failStage,    \* history: the stage the last failed importSrc(P) failed in
  regCount,    \* history: how often srcPkg[P] was assigned
  parsedBy,    \* history: the sessions whose import of P called the parser
  visited      \* history: the directories whose import marked P visiting

vars == <<srcPkg, pkgNames, rdir, scopes, mutex, frameMutex, stack, result,
          active, universe, pd, run, srcExists, firstName, failStage, regCount, parsedBy,
          visited>>

interpVars == <<srcPkg, pkgNames, rdir, scopes, mutex, frameMutex>>
histVars == <<regCount, parsedBy, visited>>

NotCalled == [dir |-> <<>>, root |-> <<>>, err |-> "idle"]
NoCall == [root |-> <<>>, path |-> <<>>, dirs |-> {}, fallback |-> FALSE, out |-> NotCalled]

\* No file set is being compared.
NotRun == [err |-> "idle", name |-> "", trace |-> <<>>, sym |-> <<>>]
NoScript == [skipTest |-> FALSE, files |-> <<>>, retry |-> TRUE, gvars |-> TRUE, hasMain |-> FALSE]
NoRun == [sc |-> NoScript, dir |-> NotRun, archive |-> NotRun]

\* What an import returned: err is "ok" or the error, stage the step of the import
\* that returned it; the other fields copy the activation's.
NoResult == [path |-> "", dir |-> 0, err |-> "none", name |-> "", stage |-> "", kind |-> "",
             skipTest |-> FALSE, seen |-> {}, late |-> FALSE, cyc |-> 0, prev |-> ""]

\* One activation of importSrc (kind "src") or importSrcArchive (kind "archive").
NewFrame(kind, path, skip, cyc) ==
  [kind |-> kind, path |-> path, skipTest |-> skip,
   dir |-> 1,             \* the directory (rPath, importPath) resolves to
   pc |-> IF kind = "src" THEN "lookup" ELSE "aResolve",
   nfiles |-> 0,          \* entries of the listing consumed so far
   pkgName |-> "",
   rootNodes |-> <<>>,    \* [file, pname] of each parsed file, file its rank in discovery order
   revisit |-> FALSE,     \* whether revisit[subRPath] exists
   ngta |-> 0,            \* history: the calls of interp.gta that returned a list
   nretry |-> 0,          \* history: the calls of interp.gtaRetry
   initNodes |-> <<>>,
   ci |-> 0,              \* index of the loop in progress
   nimp |-> 0,
   sub |-> NoResult,      \* what the nested importSrc returned to the declaration pass
   log |-> <<>>,          \* the evaluator calls of this import, in order
   hasMain |-> FALSE,
   seen |-> {},           \* history: the package clauses the parser reported
   late |-> firstName[path] # "",     \* history: called after a successful importSrc(path)
   prev |-> failStage[path],          \* history: the stage the last failed importSrc(path) failed in
   onCycle |-> cyc]                   \* history: length of the import cycle through this activation, or 0

\* An import path resolves to MaxDirs directories where one session imports one
\* path, and to one directory elsewhere.
DirsBound == IF universe = {"p"} /\ Cardinality(active) = 1 THEN MaxDirs ELSE 1

FilesBound(s) ==
  IF Cardinality(active) = 1 /\ Len(stack[s]) = 1 /\ universe # {"p", ArchivePath}
    THEN MaxFiles ELSE ConcFiles

Top(s) == stack[s][Len(stack[s])]
At(s, pc) == s \in active /\ stack[s] # <<>> /\ Top(s).pc = pc
SetTop(s, f) == stack' = [stack EXCEPT ![s][Len(stack[s])] = f]
Goto(s, pc) == SetTop(s, [Top(s) EXCEPT !.pc = pc])

\* return (name, err) from the running activation: pop it and hand the result to
\* the declaration pass that made the call, or to the session for a top-level import.
ResultOf(f, err, name, stage) ==
  [path |-> f.path, dir |-> f.dir, err |-> err, name |-> name, stage |-> stage,
   kind |-> f.kind, skipTest |-> f.skipTest, seen |-> f.seen,
   late |-> f.late, cyc |-> f.onCycle, prev |-> f.prev]

Returned(st, err, name, stage) ==
  LET n == Len(st) IN
  IF n = 1 THEN <<>>
  ELSE SubSeq(st, 1, n - 2) \o <<[st[n - 1] EXCEPT !.sub = ResultOf(st[n], err, name, stage)]>>

Returns(s, f, err, name, stage) ==
  /\ result' = IF Len(stack[s]) = 1
                 THEN [result EXCEPT ![s] = ResultOf(f, err, name, stage)] ELSE result
  /\ firstName' = IF f.kind = "src" /\ err = "ok" /\ firstName[f.path] = ""
                    THEN [firstName EXCEPT ![f.path] = name] ELSE firstName
  /\ failStage' = IF f.kind = "src" /\ err # "ok"
                    THEN [failStage EXCEPT ![f.path] = stage] ELSE failStage

Return(s, err, name, stage) ==
  /\ stack' = [stack EXCEPT ![s] = Returned(stack[s], err, name, stage)]
  /\ Returns(s, Top(s), err, name, stage)

Fail(s, err, stage) == Return(s, err, "", stage)

\* The runs explored: imports of two source packages, imports of an archive whose
\* files import one source package, imports of one path from several roots, and
\* imports of an archive alone.
Universes == {{"p", "q"}, {"p", ArchivePath}, {"p"}, {ArchivePath}}

Filesystems(u) == {fs \in [Paths -> BOOLEAN] : \A x \in Paths \ u : ~fs[x]}

Init ==
  /\ srcPkg = [p \in Paths |-> Nil]
  /\ pkgNames = [p \in Paths |-> Absent]
  /\ rdir = [p \in Paths |-> FALSE]
  /\ scopes = [p \in Paths |-> Nil]
  /\ mutex = ""
  /\ frameMutex = ""
  /\ stack = [s \in Sessions |-> <<>>]
  /\ result = [s \in Sessions |-> NoResult]
  /\ active = {"s1"}
  /\ universe \in Universes
  /\ pd = NoCall
  /\ run = NoRun
  /\ srcExists \in Filesystems(universe)
  /\ firstName = [p \in Paths |-> ""]
  /\ failStage = [p \in Paths |-> ""]
  /\ regCount = [p \in Paths |-> 0]
  /\ parsedBy = [p \in Paths |-> {}]
  /\ visited = [p \in Paths |-> {}]

\* A session calls importSrc(rPath, importPath, skipTest).
CallImportSrc(s) ==
  /\ s \in active /\ stack[s] = <<>>
  /\ \E p \in universe \cap SrcPaths, skip \in BOOLEAN, d \in 1..DirsBound :
       stack' = [stack EXCEPT ![s] = <<[NewFrame("src", p, skip, 0) EXCEPT !.dir = d]>>]
  /\ result' = [result EXCEPT ![s] = NoResult]
  /\ UNCHANGED <<interpVars, active, universe, pd, run, srcExists, firstName, failStage, histVars>>

\* Lookup as it would be if the registry were not consulted.
Lookup_Miss(s) ==
  /\ At(s, "lookup")
  /\ Goto(s, "resolve")
  /\ UNCHANGED <<interpVars, result, active, universe, pd, run, srcExists, firstName, failStage, histVars>>

\* if interp.srcPkg[importPath] != nil
Lookup(s) ==
  /\ At(s, "lookup")
  /\ Goto(s, IF srcPkg[Top(s).path] # Nil THEN "lookupName" ELSE "resolve")
  /\ UNCHANGED <<interpVars, result, active, universe, pd, run, srcExists, firstName, failStage, histVars>>

\* name, ok := interp.pkgNames[importPath]
LookupName(s) ==
  /\ At(s, "lookupName")
  /\ IF pkgNames[Top(s).path] = Absent
       THEN Fail(s, "inconsistent", "lookup")
       ELSE Return(s, "ok", pkgNames[Top(s).path], "lookup")
  /\ UNCHANGED <<interpVars, active, universe, pd, run, srcExists, histVars>>

\* isPathRelative / rootFromSourceLocation / pkgDir
Resolve(s) ==
  /\ At(s, "resolve")
  /\ IF srcExists[Top(s).path]
       THEN Goto(s, "rdirCheck") /\ UNCHANGED <<result, firstName, failStage>>
       ELSE Fail(s, "notfound", "resolve")
  /\ UNCHANGED <<interpVars, active, universe, pd, run, srcExists, histVars>>

\* RdirCheck as it would be if a visiting path were not rejected.
RdirCheck_NoReject(s) ==
  /\ At(s, "rdirCheck")
  /\ Goto(s, "rdirMark")
  /\ UNCHANGED <<interpVars, result, active, universe, pd, run, srcExists, firstName, failStage, histVars>>

\* if interp.rdir[importPath] { return import cycle not allowed }
RdirCheck(s) ==
  /\ At(s, "rdirCheck")
  /\ IF rdir[Top(s).path]
       THEN Fail(s, "cycle", "visit")
       ELSE Goto(s, "rdirMark") /\ UNCHANGED <<result, firstName, failStage>>
  /\ UNCHANGED <<interpVars, active, universe, pd, run, srcExists, histVars>>

\* RdirMark as it would be if the path were not marked visiting.
RdirMark_Forgets(s) ==
  /\ At(s, "rdirMark")
  /\ Goto(s, "readDir")
  /\ UNCHANGED <<interpVars, result, active, universe, pd, run, srcExists, firstName, failStage, histVars>>

\* interp.rdir[importPath] = true
RdirMark(s) ==
  /\ At(s, "rdirMark")
  /\ rdir' = [rdir EXCEPT ![Top(s).path] = TRUE]
  /\ visited' = [visited EXCEPT ![Top(s).path] = @ \cup {Top(s).dir}]
  /\ Goto(s, "readDir")
  /\ UNCHANGED <<srcPkg, pkgNames, scopes, mutex, frameMutex, result, active, universe, pd, run,
                 srcExists, firstName, failStage, regCount, parsedBy>>

\* files, err := ioutil.ReadDir(dir)
ReadDir(s) ==
  /\ At(s, "readDir")
  /\ \/ Goto(s, "files") /\ UNCHANGED <<result, firstName, failStage>>
     \/ Fail(s, "readdir", "load")
  /\ UNCHANGED <<interpVars, active, universe, pd, run, srcExists, histVars>>

LoopPc(f) == IF f.kind = "src" THEN "files" ELSE "aFiles"

\* ParseFile as it would be if the package clauses of the files were not compared.
ParseFile_NoConflict(s) ==
  LET f == Top(s)
      i == f.nfiles + 1
  IN /\ f.nfiles < FilesBound(s)
     /\ parsedBy' = [parsedBy EXCEPT ![f.path] = @ \cup {s}]
     /\ \/ Fail(s, "parse", "load")
        \/ SetTop(s, [f EXCEPT !.nfiles = i]) /\ UNCHANGED <<result, firstName, failStage>>
        \/ \E pname \in Names :
             /\ SetTop(s, [f EXCEPT !.nfiles = i,
                                    !.seen = @ \cup {pname},
                                    !.pkgName = IF f.pkgName = "" THEN pname ELSE @,
                                    !.rootNodes = Append(@, [file |-> Len(@) + 1, pname |-> pname]),
                                    !.pc = "gta"])
             /\ UNCHANGED <<result, firstName, failStage>>
     /\ UNCHANGED <<interpVars, active, universe, pd, run, srcExists, regCount, visited>>

\* The body of the load loop from the call of interp.ast to the append to
\* rootNodes: the parser's answer is an error, no node, or a node with its package
\* clause pname.
ParseFile(s) ==
  LET f == Top(s)
      i == f.nfiles + 1
  IN /\ f.nfiles < FilesBound(s)
     /\ parsedBy' = [parsedBy EXCEPT ![f.path] = @ \cup {s}]
     /\ \/ Fail(s, "parse", "load")
        \/ SetTop(s, [f EXCEPT !.nfiles = i]) /\ UNCHANGED <<result, firstName, failStage>>
        \/ \E pname \in Names :
             IF f.pkgName # "" /\ f.pkgName # pname /\ f.skipTest
               THEN /\ stack' = [stack EXCEPT ![s] = Returned(
                                   [stack[s] EXCEPT ![Len(stack[s])].seen = @ \cup {pname}],
                                   "conflict", "", "load")]
                    /\ Returns(s, [f EXCEPT !.seen = @ \cup {pname}], "conflict", "", "load")
               ELSE /\ SetTop(s, [f EXCEPT !.nfiles = i,
                                           !.seen = @ \cup {pname},
                                           !.pkgName = IF f.pkgName = "" THEN pname ELSE @,
                                           !.rootNodes = Append(@, [file |-> Len(@) + 1, pname |-> pname]),
                                           !.pc = "gta"])
                    /\ UNCHANGED <<result, firstName, failStage>>
     /\ UNCHANGED <<interpVars, active, universe, pd, run, srcExists, regCount, visited>>

\* FilesEnd as it would be if the pending nodes were not revisited.
FilesEnd_SkipsRetry(s) ==
  /\ At(s, "files")
  /\ SetTop(s, [Top(s) EXCEPT !.pc = "cfg", !.ci = 0])
  /\ UNCHANGED <<interpVars, result, active, universe, pd, run, srcExists, firstName, failStage, histVars>>

\* for _, file := range files: the listing is exhausted
FilesEnd(s) ==
  /\ At(s, "files")
  /\ Goto(s, "retry")
  /\ UNCHANGED <<interpVars, result, active, universe, pd, run, srcExists, firstName, failStage, histVars>>

\* skipFile(...) { continue }
FileSkip(s) ==
  /\ At(s, "files")
  /\ Top(s).nfiles < FilesBound(s)
  /\ SetTop(s, [Top(s) EXCEPT !.nfiles = @ + 1])
  /\ UNCHANGED <<interpVars, result, active, universe, pd, run, srcExists, firstName, failStage, histVars>>

\* ioutil.ReadFile(name) fails
FileReadErr(s) ==
  /\ At(s, "files")
  /\ Top(s).nfiles < FilesBound(s)
  /\ Fail(s, "io", "load")
  /\ UNCHANGED <<interpVars, active, universe, pd, run, srcExists, histVars>>

FileParse(s) ==
  /\ At(s, "files")
  /\ ParseFile(s)

\* list, err = interp.gta(root, subRPath, importPath): the declaration pass starts
\* and creates the package scope.
GtaStart(s) ==
  /\ At(s, "gta")
  /\ scopes' = [scopes EXCEPT ![Top(s).path] = "sym"]
  /\ SetTop(s, [Top(s) EXCEPT !.pc = "gtaRun", !.nimp = 0])
  /\ UNCHANGED <<srcPkg, pkgNames, rdir, mutex, frameMutex, result, active, universe, pd, run,
                 srcExists, firstName, failStage, histVars>>

\* The first activation, from the bottom of the chain, that imports path q:
\* 0 when none does.
FirstOf(st, q) ==
  LET I == {i \in 1..Len(st) : st[i].path = q}
  IN IF I = {} THEN 0 ELSE CHOOSE i \in I : \A j \in I : i <= j

\* The declaration pass meets an import declaration and calls importSrc for it.
GtaImport(s) ==
  /\ At(s, "gtaRun")
  /\ Top(s).sub = NoResult
  /\ Top(s).nimp < MaxImports
  /\ Len(stack[s]) < MaxDepth
  /\ \E q \in universe \cap SrcPaths, skip \in BOOLEAN, d \in 1..DirsBound :
       LET st == stack[s]
           k == FirstOf(st, q)
           len == IF k > 0 THEN Len(st) - k + 1 ELSE 0
           marked == [i \in 1..Len(st) |->
                        IF k > 0 /\ i >= k
                          THEN [st[i] EXCEPT !.onCycle = len] ELSE st[i]]
           caller == [marked[Len(st)] EXCEPT !.nimp = @ + 1]
       IN stack' = [stack EXCEPT ![s] =
                      SubSeq(marked, 1, Len(st) - 1)
                        \o <<caller, [NewFrame("src", q, skip, len) EXCEPT !.dir = d]>>]
  /\ UNCHANGED <<interpVars, result, active, universe, pd, run, srcExists, firstName, failStage, histVars>>

\* The nested importSrc has returned: the declaration pass goes on, or fails with
\* the import's error, and importSrc returns that error.
GtaSub(s) ==
  /\ At(s, "gtaRun")
  /\ Top(s).sub # NoResult
  /\ IF Top(s).sub.err = "ok"
       THEN /\ SetTop(s, [Top(s) EXCEPT !.sub = NoResult])
            /\ UNCHANGED <<result, firstName, failStage>>
       ELSE Fail(s, Top(s).sub.err, "declare")
  /\ UNCHANGED <<interpVars, active, universe, pd, run, srcExists, histVars>>

\* gta returns its pending nodes: revisit[subRPath] = append(revisit[subRPath], list...)
GtaOk(s) ==
  /\ At(s, "gtaRun")
  /\ Top(s).sub = NoResult
  /\ SetTop(s, [Top(s) EXCEPT !.revisit = TRUE, !.ngta = @ + 1, !.nimp = 0,
                              !.pc = LoopPc(Top(s))])
  /\ UNCHANGED <<interpVars, result, active, universe, pd, run, srcExists, firstName, failStage, histVars>>

\* gta returns an error of its own
GtaErr(s) ==
  /\ At(s, "gtaRun")
  /\ Top(s).sub = NoResult
  /\ Fail(s, "decl", "declare")
  /\ UNCHANGED <<interpVars, active, universe, pd, run, srcExists, histVars>>

\* for _, nodes := range revisit { interp.gtaRetry(nodes, importPath) }
Retry(s) ==
  /\ At(s, "retry")
  /\ IF Top(s).revisit
       THEN \/ SetTop(s, [Top(s) EXCEPT !.pc = "cfg", !.ci = 0, !.nretry = @ + 1])
               /\ UNCHANGED <<result, firstName, failStage>>
            \/ Fail(s, "retry", "retry")
       ELSE /\ SetTop(s, [Top(s) EXCEPT !.pc = "cfg", !.ci = 0])
            /\ UNCHANGED <<result, firstName, failStage>>
  /\ UNCHANGED <<interpVars, active, universe, pd, run, srcExists, histVars>>

Copies(k, x) == [i \in 1..k |-> x]

\* for _, root := range rootNodes { nodes, err = interp.cfg(root, importPath) }
Cfg(s) ==
  LET f == Top(s) IN
  /\ At(s, "cfg")
  /\ IF f.ci < Len(f.rootNodes)
       THEN \/ \E k \in 0..MaxInit :
                 /\ SetTop(s, [f EXCEPT !.ci = @ + 1,
                                        !.initNodes = @ \o Copies(k,
                                           [k |-> "init", file |-> f.rootNodes[f.ci + 1].file])])
                 /\ UNCHANGED <<result, firstName, failStage>>
            \/ Fail(s, "lower", "lower")
       ELSE Goto(s, "lockReg") /\ UNCHANGED <<result, firstName, failStage>>
  /\ UNCHANGED <<interpVars, active, universe, pd, run, srcExists, histVars>>

\* interp.mutex.Lock()
LockReg(s) ==
  /\ At(s, "lockReg")
  /\ mutex = ""
  /\ mutex' = s
  /\ Goto(s, "setSrcPkg")
  /\ UNCHANGED <<srcPkg, pkgNames, rdir, scopes, frameMutex, result, active, universe, pd, run,
                 srcExists, firstName, failStage, histVars>>

Bump(n) == IF n < RegCap THEN n + 1 ELSE n

\* gs := interp.scopes[importPath]; interp.srcPkg[importPath] = gs.sym
\* With no scope for the path gs is nil and gs.sym panics, the mutex held.
SetSrcPkg(s) ==
  LET p == Top(s).path IN
  /\ At(s, "setSrcPkg")
  /\ IF scopes[p] = Nil
       THEN Goto(s, "panic") /\ UNCHANGED <<srcPkg, regCount>>
       ELSE /\ srcPkg' = [srcPkg EXCEPT ![p] = scopes[p]]
            /\ regCount' = [regCount EXCEPT ![p] = Bump(@)]
            /\ Goto(s, "setPkgNames")
  /\ UNCHANGED <<pkgNames, rdir, scopes, mutex, frameMutex, result, active, universe, pd, run,
                 srcExists, firstName, failStage, parsedBy, visited>>

\* interp.pkgNames[importPath] = pkgName
SetPkgNames(s) ==
  /\ At(s, "setPkgNames")
  /\ pkgNames' = [pkgNames EXCEPT ![Top(s).path] = Top(s).pkgName]
  /\ Goto(s, "lockFrame")
  /\ UNCHANGED <<srcPkg, rdir, scopes, mutex, frameMutex, result, active, universe, pd, run,
                 srcExists, firstName, failStage, histVars>>

\* interp.frame.mutex.Lock()
LockFrame(s) ==
  /\ At(s, "lockFrame")
  /\ frameMutex = ""
  /\ frameMutex' = s
  /\ Goto(s, "resize")
  /\ UNCHANGED <<srcPkg, pkgNames, rdir, scopes, mutex, result, active, universe, pd, run,
                 srcExists, firstName, failStage, histVars>>

\* interp.resizeFrame()
ResizeFrame(s) ==
  /\ At(s, "resize")
  /\ Goto(s, "unlockFrame")
  /\ UNCHANGED <<interpVars, result, active, universe, pd, run, srcExists, firstName, failStage, histVars>>

\* interp.frame.mutex.Unlock()
UnlockFrame(s) ==
  /\ At(s, "unlockFrame")
  /\ frameMutex' = ""
  /\ Goto(s, "unlockReg")
  /\ UNCHANGED <<srcPkg, pkgNames, rdir, scopes, mutex, result, active, universe, pd, run,
                 srcExists, firstName, failStage, histVars>>

\* UnlockReg as it would be if the loop over the entry points were skipped.
UnlockReg_SkipsWiring(s) ==
  /\ At(s, "unlockReg")
  /\ mutex' = ""
  /\ SetTop(s, [Top(s) EXCEPT !.pc = "gvars", !.ci = 0])
  /\ UNCHANGED <<srcPkg, pkgNames, rdir, scopes, frameMutex, result, active, universe, pd, run,
                 srcExists, firstName, failStage, histVars>>

\* interp.mutex.Unlock()
UnlockReg(s) ==
  /\ At(s, "unlockReg")
  /\ mutex' = ""
  /\ SetTop(s, [Top(s) EXCEPT !.pc = "genRun", !.ci = 0])
  /\ UNCHANGED <<srcPkg, pkgNames, rdir, scopes, frameMutex, result, active, universe, pd, run,
                 srcExists, firstName, failStage, histVars>>

Ran(k, file, frame) == [k |-> k, file |-> file, frame |-> frame]

\* for _, n := range rootNodes { genRun(n); interp.run(n, nil) }
GenRun(s) ==
  LET f == Top(s) IN
  /\ At(s, "genRun")
  /\ IF f.ci < Len(f.rootNodes)
       THEN \/ /\ SetTop(s, [f EXCEPT !.ci = @ + 1,
                                      !.log = Append(@, Ran("wire", f.rootNodes[f.ci + 1].file, "nil"))])
               /\ UNCHANGED <<result, firstName, failStage>>
            \/ Fail(s, "genrun", "init")
       ELSE Goto(s, "gvars") /\ UNCHANGED <<result, firstName, failStage>>
  /\ UNCHANGED <<interpVars, active, universe, pd, run, srcExists, histVars>>

\* n, err := genGlobalVars(rootNodes, gs); interp.run(n, nil)
GlobalVars(s) ==
  /\ At(s, "gvars")
  /\ \/ /\ SetTop(s, [Top(s) EXCEPT !.pc = "addMain", !.log = Append(@, Ran("gvar", 0, "nil"))])
        /\ UNCHANGED <<result, firstName, failStage>>
     \/ Fail(s, "gvars", "init")
  /\ UNCHANGED <<interpVars, active, universe, pd, run, srcExists, histVars>>

\* AddMain as it would be if skipTest were not consulted.
AddMain_IgnoresSkipTest(s) ==
  LET f == Top(s) IN
  /\ At(s, "addMain")
  /\ \E m \in BOOLEAN :
       SetTop(s, [f EXCEPT !.hasMain = m,
                           !.initNodes = IF f.pkgName = mainID /\ m
                                           THEN Append(@, [k |-> "main", file |-> 0])
                                           ELSE @,
                           !.ci = 0,
                           !.pc = "runInit"])
  /\ UNCHANGED <<interpVars, result, active, universe, pd, run, srcExists, firstName, failStage, histVars>>

\* if m := gs.sym[mainID]; pkgName == mainID && m != nil && skipTest
AddMain(s) ==
  LET f == Top(s) IN
  /\ At(s, "addMain")
  /\ \E m \in BOOLEAN :
       SetTop(s, [f EXCEPT !.hasMain = m,
                           !.initNodes = IF f.pkgName = mainID /\ m /\ f.skipTest
                                           THEN Append(@, [k |-> "main", file |-> 0])
                                           ELSE @,
                           !.ci = 0,
                           !.pc = "runInit"])
  /\ UNCHANGED <<interpVars, result, active, universe, pd, run, srcExists, firstName, failStage, histVars>>

\* for _, n := range initNodes { interp.run(n, interp.frame) }; return pkgName, nil
RunInit(s) ==
  LET f == Top(s) IN
  /\ At(s, "runInit")
  /\ IF f.ci < Len(f.initNodes)
       THEN /\ SetTop(s, [f EXCEPT !.ci = @ + 1,
                                   !.log = Append(@, Ran(f.initNodes[f.ci + 1].k,
                                                         f.initNodes[f.ci + 1].file, "shared"))])
            /\ UNCHANGED <<result, firstName, failStage>>
       ELSE Return(s, "ok", f.pkgName, "init")
  /\ UNCHANGED <<interpVars, active, universe, pd, run, srcExists, histVars>>

\* A session calls importSrcArchive(reader, skipTest): rPath ".", importPath "/".
CallImportSrcArchive(s) ==
  /\ s \in active /\ stack[s] = <<>>
  /\ ArchivePath \in universe
  /\ \E skip \in BOOLEAN :
       stack' = [stack EXCEPT ![s] = <<NewFrame("archive", ArchivePath, skip, 0)>>]
  /\ result' = [result EXCEPT ![s] = NoResult]
  /\ UNCHANGED <<interpVars, active, universe, pd, run, srcExists, firstName, failStage, histVars>>

\* rootFromSourceLocation(".") / pkgDir(&interp.context, root, "/")
ArchiveResolve(s) ==
  /\ At(s, "aResolve")
  /\ IF srcExists[Top(s).path]
       THEN Goto(s, "aMark") /\ UNCHANGED <<result, firstName, failStage>>
       ELSE Fail(s, "notfound", "resolve")
  /\ UNCHANGED <<interpVars, active, universe, pd, run, srcExists, histVars>>

\* interp.rdir[importPath] = true, with no check before it
ArchiveMark(s) ==
  /\ At(s, "aMark")
  /\ rdir' = [rdir EXCEPT ![Top(s).path] = TRUE]
  /\ Goto(s, "gzip")
  /\ UNCHANGED <<srcPkg, pkgNames, scopes, mutex, frameMutex, result, active, universe, pd, run,
                 srcExists, firstName, failStage, histVars>>

\* uncompressedStream, err := gzip.NewReader(reader)
GzipOpen(s) ==
  /\ At(s, "gzip")
  /\ \/ Goto(s, "aFiles") /\ UNCHANGED <<result, firstName, failStage>>
     \/ Fail(s, "archive", "load")
  /\ UNCHANGED <<interpVars, active, universe, pd, run, srcExists, histVars>>

\* header, err := tarReader.Next(); if err == io.EOF { break }
TarEOF(s) ==
  /\ At(s, "aFiles")
  /\ Goto(s, "retry")
  /\ UNCHANGED <<interpVars, result, active, universe, pd, run, srcExists, firstName, failStage, histVars>>

\* if err != nil { fmt.Errorf(...) }: the error value is dropped, and
\* header.Typeflag reads the nil header Next returned with the error.
TarErr(s) ==
  /\ At(s, "aFiles")
  /\ Top(s).nfiles < FilesBound(s)
  /\ Goto(s, "nilHeader")
  /\ UNCHANGED <<interpVars, result, active, universe, pd, run, srcExists, firstName, failStage, histVars>>

\* case tar.TypeDir, any other type flag, or skipFile(...) { continue }
TarSkip(s) ==
  /\ At(s, "aFiles")
  /\ Top(s).nfiles < FilesBound(s)
  /\ SetTop(s, [Top(s) EXCEPT !.nfiles = @ + 1])
  /\ UNCHANGED <<interpVars, result, active, universe, pd, run, srcExists, firstName, failStage, histVars>>

\* buf.ReadFrom(tarReader) fails
TarReadErr(s) ==
  /\ At(s, "aFiles")
  /\ Top(s).nfiles < FilesBound(s)
  /\ Fail(s, "archive", "load")
  /\ UNCHANGED <<interpVars, active, universe, pd, run, srcExists, histVars>>

TarParse(s) ==
  /\ At(s, "aFiles")
  /\ ParseFile(s)

(***************************************************************************)
(* Path resolution. A path is the sequence of its segments, the empty      *)
(* string the empty sequence; filepath.Join concatenates and drops empty   *)
(* segments.                                                               *)
(***************************************************************************)
vendor == "vendor"

\* strings.Split(s, "/"): the empty string splits into one empty segment
Split(x) == IF x = <<>> THEN <<"">> ELSE x

\* filepath.Join(elems...)
Join(segs) == SelectSeq(segs, LAMBDA e : e # "")

Reverse(q) == [i \in 1..Len(q) |-> q[Len(q) + 1 - i]]

\* for i := len(splitRoot) - 1; i >= 0; i-- { if splitRoot[i] == "vendor" { index = i; break } }
\* from position i down, positions counted from 0; index stays 0 when no segment matches.
RECURSIVE lastVendor(_, _)
lastVendor(splitRoot, i) ==
  IF i < 0 THEN 0
  ELSE IF splitRoot[i + 1] = vendor THEN i
  ELSE lastVendor(splitRoot, i - 1)

\* previousRoot as it would be if the roots were searched from the first segment on.
previousRoot_FirstVendor(root) ==
  LET splitRoot == Split(root)
      V == {i \in 1..Len(splitRoot) : splitRoot[i] = vendor}
      index == IF V = {} THEN 0 ELSE (CHOOSE i \in V : \A j \in V : i <= j) - 1
  IN IF index = 0 THEN <<>> ELSE Join(SubSeq(splitRoot, 1, index))

\* Find the previous source root (vendor > vendor > ... > GOPATH).
previousRoot(root) ==
  LET splitRoot == Split(root)
      index == lastVendor(splitRoot, Len(splitRoot) - 1)
  IN IF index = 0 THEN <<>> ELSE Join(SubSeq(splitRoot, 1, index))

\* The loop of effectivePkg from iteration i on: the parts kept, last segment first.
RECURSIVE effectiveParts(_, _, _, _, _, _)
effectiveParts(splitRoot, splitPath, i, rootIndex, prevRootIndex, res) ==
  IF i >= Len(splitPath) THEN res
  ELSE LET part == splitPath[Len(splitPath) - i]
           index == Len(splitRoot) - 1 - rootIndex
       IN IF index > 0 /\ part = splitRoot[index + 1] /\ i # 0
            THEN effectiveParts(splitRoot, splitPath, i + 1, rootIndex + 1, rootIndex, res)
            ELSE IF prevRootIndex = rootIndex
              THEN effectiveParts(splitRoot, splitPath, i + 1, rootIndex, prevRootIndex,
                                  Append(res, part))
              ELSE effectiveParts(splitRoot, splitPath, i + 1, rootIndex, prevRootIndex, res)

effectivePkg(root, path) ==
  Join(root \o Reverse(effectiveParts(Split(root), Split(path), 0, 0, 0, <<>>)))

NotFound == [dir |-> <<>>, root |-> <<>>, err |-> "notfound"]

\* ctx.Import(path, ".", build.FindOnly): the package in the standard location
Standard(path) == [dir |-> <<"$std">> \o path, root |-> <<"$std">>, err |-> "ok"]

RECURSIVE pkgDir(_, _, _, _)

\* pkgDir as it would be if the package's own location were tried before the
\* vendor directory.
pkgDir_VendorLast(dirs, fallback, root, path) ==
  LET rPath == Join(root \o <<vendor>>)
  IN IF effectivePkg(root, path) \in dirs
       THEN [dir |-> effectivePkg(root, path), root |-> root, err |-> "ok"]
     ELSE IF Join(rPath \o path) \in dirs
       THEN [dir |-> Join(rPath \o path), root |-> rPath, err |-> "ok"]
     ELSE IF Len(root) = 0
       THEN IF fallback THEN Standard(path) ELSE NotFound
     ELSE pkgDir(dirs, fallback, previousRoot(root), path)

\* pkgDir(ctx, root, path), dirs the directories that exist under GOPATH/src and
\* fallback whether ctx.Import finds the package.
pkgDir(dirs, fallback, root, path) ==
  LET rPath == Join(root \o <<vendor>>)
  IN IF Join(rPath \o path) \in dirs
       THEN [dir |-> Join(rPath \o path), root |-> rPath, err |-> "ok"]
     ELSE IF effectivePkg(root, path) \in dirs
       THEN [dir |-> effectivePkg(root, path), root |-> root, err |-> "ok"]
     ELSE IF Len(root) = 0
       THEN IF fallback THEN Standard(path) ELSE NotFound
     ELSE pkgDir(dirs, fallback, previousRoot(root), path)

Segs == {"a", "b", vendor}

RECURSIVE SeqsUpTo(_, _)
SeqsUpTo(S, n) ==
  IF n = 0 THEN {<<>>}
  ELSE LET shorter == SeqsUpTo(S, n - 1)
       IN shorter \cup {Append(q, x) : q \in shorter, x \in S}

Roots == SeqsUpTo(Segs, MaxSegs)
ImportPaths == SeqsUpTo({"a", "b"}, 2) \ {<<>>}

\* The roots pkgDir goes through from root outward, the empty root last.
RECURSIVE Chain(_)
Chain(root) == IF root = <<>> THEN <<root>> ELSE <<root>> \o Chain(previousRoot(root))

\* The candidate directories of (root, path), in the order of the search, each
\* with the effective root returned with it.
RECURSIVE CandidatesOf(_, _)
CandidatesOf(chain, path) ==
  IF chain = <<>> THEN <<>>
  ELSE <<[dir |-> Join(Head(chain) \o <<vendor>> \o path),
          root |-> Join(Head(chain) \o <<vendor>>)],
         [dir |-> effectivePkg(Head(chain), path), root |-> Head(chain)]>>
         \o CandidatesOf(Tail(chain), path)

Candidates(root, path) == CandidatesOf(Chain(root), path)

\* A call pkgDir(ctx, root, path) on some filesystem.
CallPkgDir ==
  /\ pd.out = NotCalled
  /\ pd' = [pd EXCEPT !.out = pkgDir(pd.dirs, pd.fallback, pd.root, pd.path)]
  /\ UNCHANGED <<interpVars, stack, result, active, universe, run, srcExists, firstName,
                 failStage, histVars>>

InitPkgDir ==
  /\ srcPkg = [p \in Paths |-> Nil]
  /\ pkgNames = [p \in Paths |-> Absent]
  /\ rdir = [p \in Paths |-> FALSE]
  /\ scopes = [p \in Paths |-> Nil]
  /\ mutex = ""
  /\ frameMutex = ""
  /\ stack = [s \in Sessions |-> <<>>]
  /\ result = [s \in Sessions |-> NoResult]
  /\ active = {}
  /\ universe = {}
  /\ srcExists = [x \in Paths |-> FALSE]
  /\ run = NoRun
  /\ firstName = [p \in Paths |-> ""]
  /\ failStage = [p \in Paths |-> ""]
  /\ regCount = [p \in Paths |-> 0]
  /\ parsedBy = [p \in Paths |-> {}]
  /\ visited = [p \in Paths |-> {}]
  /\ \E root \in Roots, path \in ImportPaths, fallback \in BOOLEAN :
       \E dirs \in SUBSET {Candidates(root, path)[i].dir : i \in 1..Len(Candidates(root, path))} :
         pd = [root |-> root, path |-> path, dirs |-> dirs, fallback |-> fallback,
               out |-> NotCalled]

NextPkgDir == CallPkgDir

SpecPkgDir == InitPkgDir /\ [][NextPkgDir]_vars

\* The calls of previousRoot and effectivePkg on their own: every root, and the
\* paths that continue the root or stand alone.
PathsOf(root) == {root \o x : x \in SeqsUpTo({"a", "b"}, 2)} \cup ImportPaths

CallPreviousRoot ==
  /\ pd.out = NotCalled
  /\ pd' = [pd EXCEPT !.out = [dir |-> previousRoot(pd.root), root |-> pd.root, err |-> "previousRoot"]]
  /\ UNCHANGED <<interpVars, stack, result, active, universe, run, srcExists, firstName,
                 failStage, histVars>>

CallEffectivePkg ==
  /\ pd.out = NotCalled
  /\ pd' = [pd EXCEPT !.out = [dir |-> effectivePkg(pd.root, pd.path), root |-> pd.root,
                               err |-> "effectivePkg"]]
  /\ UNCHANGED <<interpVars, stack, result, active, universe, run, srcExists, firstName,
                 failStage, histVars>>

InitPath ==
  /\ srcPkg = [p \in Paths |-> Nil]
  /\ pkgNames = [p \in Paths |-> Absent]
  /\ rdir = [p \in Paths |-> FALSE]
  /\ scopes = [p \in Paths |-> Nil]
  /\ mutex = ""
  /\ frameMutex = ""
  /\ stack = [s \in Sessions |-> <<>>]
  /\ result = [s \in Sessions |-> NoResult]
  /\ active = {}
  /\ universe = {}
  /\ srcExists = [x \in Paths |-> FALSE]
  /\ run = NoRun
  /\ firstName = [p \in Paths |-> ""]
  /\ failStage = [p \in Paths |-> ""]
  /\ regCount = [p \in Paths |-> 0]
  /\ parsedBy = [p \in Paths |-> {}]
  /\ visited = [p \in Paths |-> {}]
  /\ \E root \in Roots : \E path \in PathsOf(root) :
       pd = [root |-> root, path |-> path, dirs |-> {}, fallback |-> FALSE, out |-> NotCalled]

NextPath == CallPreviousRoot \/ CallEffectivePkg

SpecPath == InitPath /\ [][NextPath]_vars

(***************************************************************************)
(* One file set imported twice on fresh interpreters: importSrc reading it *)
(* from a directory and importSrcArchive reading it from an archive, with  *)
(* the same answers of the parser, the passes and the evaluator. On a      *)
(* fresh interpreter the lookup misses and the path is not visiting; the   *)
(* directory and the archive are taken to resolve and open.                *)
(***************************************************************************)

\* An entry of the file set: skipped by skipFile, unreadable, rejected by the
\* parser, parsed to no node, or parsed to a root node with its package clause;
\* out says which pass, if any, fails on the root, ninit how many initialization
\* nodes cfg returns for it.
Entries ==
  {[kind |-> k, name |-> "", out |-> "", ninit |-> 0] :
     k \in {"skip", "readerr", "parseerr", "nilroot"}}
  \cup {[kind |-> "root", name |-> n, out |-> o, ninit |-> 0] :
          n \in Names, o \in {"gtaErr", "cfgErr", "genRunErr"}}
  \cup {[kind |-> "root", name |-> n, out |-> "ok", ninit |-> i] :
          n \in Names, i \in 0..MaxInit}

Scripts ==
  [skipTest : BOOLEAN, files : SeqsUpTo(Entries, MaxFiles), retry : BOOLEAN,
   gvars : BOOLEAN, hasMain : BOOLEAN]

\* The locals of an import before its first file; trace lists the calls of the
\* parser, the passes and the evaluator, sym the files whose declarations are in
\* the registered symbol table.
Start == [pkgName |-> "", roots |-> <<>>, initNodes |-> <<>>, trace |-> <<>>,
          sym |-> <<>>, err |-> ""]

Called(st, k, i) == [st EXCEPT !.trace = Append(@, <<k, i>>)]
Failed(st, e) == [st EXCEPT !.err = e]

\* for _, file := range files { ... } of importSrc, from entry i on
RECURSIVE loadFiles(_, _, _)
loadFiles(sc, i, st) ==
  IF i > Len(sc.files) THEN st
  ELSE LET file == sc.files[i] IN
       IF file.kind = "skip" THEN loadFiles(sc, i + 1, st)
       ELSE IF file.kind = "readerr" THEN Failed(st, "io")
       ELSE IF file.kind = "parseerr" THEN Failed(Called(st, "parse", i), "parse")
       ELSE IF file.kind = "nilroot" THEN loadFiles(sc, i + 1, Called(st, "parse", i))
       ELSE IF st.pkgName # "" /\ st.pkgName # file.name /\ sc.skipTest
         THEN Failed(Called(st, "parse", i), "conflict")
       ELSE LET root == [file |-> i, out |-> file.out, ninit |-> file.ninit]
                declared == [Called(Called(st, "parse", i), "declare", i) EXCEPT
                               !.pkgName = IF @ = "" THEN file.name ELSE @,
                               !.roots = Append(@, root)]
            IN IF file.out = "gtaErr" THEN Failed(declared, "decl")
               ELSE loadFiles(sc, i + 1, declared)

\* loadEntries as it would be if the archive loop did not compare package clauses.
RECURSIVE loadEntries_NoConflict(_, _, _)
loadEntries_NoConflict(sc, i, st) ==
  IF i > Len(sc.files) THEN st
  ELSE LET entry == sc.files[i] IN
       IF entry.kind = "skip" THEN loadEntries_NoConflict(sc, i + 1, st)
       ELSE IF entry.kind = "readerr" THEN Failed(st, "archive")
       ELSE IF entry.kind = "parseerr" THEN Failed(Called(st, "parse", i), "parse")
       ELSE IF entry.kind = "nilroot"
         THEN loadEntries_NoConflict(sc, i + 1, Called(st, "parse", i))
       ELSE LET root == [file |-> i, out |-> entry.out, ninit |-> entry.ninit]
                declared == [Called(Called(st, "parse", i), "declare", i) EXCEPT
                               !.pkgName = IF @ = "" THEN entry.name ELSE @,
                               !.roots = Append(@, root)]
            IN IF entry.out = "gtaErr" THEN Failed(declared, "decl")
               ELSE loadEntries_NoConflict(sc, i + 1, declared)

\* for { header, err := tarReader.Next() ... } of importSrcArchive, from entry i
\* on, every header read without error and every entry a regular file
RECURSIVE loadEntries(_, _, _)
loadEntries(sc, i, st) ==
  IF i > Len(sc.files) THEN st
  ELSE LET entry == sc.files[i] IN
       IF entry.kind = "skip" THEN loadEntries(sc, i + 1, st)
       ELSE IF entry.kind = "readerr" THEN Failed(st, "archive")
       ELSE IF entry.kind = "parseerr" THEN Failed(Called(st, "parse", i), "parse")
       ELSE IF entry.kind = "nilroot" THEN loadEntries(sc, i + 1, Called(st, "parse", i))
       ELSE IF st.pkgName # "" /\ st.pkgName # entry.name /\ sc.skipTest
         THEN Failed(Called(st, "parse", i), "conflict")
       ELSE LET root == [file |-> i, out |-> entry.out, ninit |-> entry.ninit]
                declared == [Called(Called(st, "parse", i), "declare", i) EXCEPT
                               !.pkgName = IF @ = "" THEN entry.name ELSE @,
                               !.roots = Append(@, root)]
            IN IF entry.out = "gtaErr" THEN Failed(declared, "decl")
               ELSE loadEntries(sc, i + 1, declared)

\* for _, root := range rootNodes { interp.cfg(root, importPath) }, from root i on
RECURSIVE lowerAll(_, _)
lowerAll(st, i) ==
  IF i > Len(st.roots) THEN st
  ELSE LET root == st.roots[i]
           lowered == Called(st, "lower", root.file)
       IN IF root.out = "cfgErr" THEN Failed(lowered, "lower")
          ELSE lowerAll([lowered EXCEPT
                           !.initNodes = @ \o Copies(root.ninit, <<"init", root.file>>)],
                        i + 1)

\* for _, n := range rootNodes { genRun(n); interp.run(n, nil) }, from root i on
RECURSIVE wireAll(_, _)
wireAll(st, i) ==
  IF i > Len(st.roots) THEN st
  ELSE IF st.roots[i].out = "genRunErr" THEN Failed(st, "genrun")
  ELSE wireAll(Called(st, "wire", st.roots[i].file), i + 1)

\* The import from the retry pass on, the same statements in both functions.
\* revisit has a key once a root was declared; with no root declared the
\* interpreter has no scope for the path and gs.sym panics.
finish(sc, loaded) ==
  IF loaded.err # "" THEN loaded
  ELSE LET retried == IF loaded.roots = <<>> THEN loaded
                      ELSE IF sc.retry THEN Called(loaded, "retry", 0)
                      ELSE Failed(Called(loaded, "retry", 0), "retry")
           lowered == lowerAll(retried, 1)
           registered == [Called(lowered, "register", 0) EXCEPT
                            !.sym = [i \in 1..Len(lowered.roots) |-> lowered.roots[i].file]]
           wired == wireAll(registered, 1)
           gvar == Called(wired, "gvar", 0)
           nodes == gvar.initNodes \o
                      (IF gvar.pkgName = mainID /\ sc.hasMain /\ sc.skipTest
                         THEN <<<<"main", 0>>>> ELSE <<>>)
       IN IF retried.err # "" THEN retried
          ELSE IF lowered.err # "" THEN lowered
          ELSE IF lowered.roots = <<>> THEN Failed(lowered, "panic")
          ELSE IF wired.err # "" THEN wired
          ELSE IF ~sc.gvars THEN Failed(wired, "gvars")
          ELSE [gvar EXCEPT !.trace = @ \o nodes, !.err = "ok"]

\* What the caller and the interpreter are left with.
Outcome(st) ==
  [err |-> st.err, name |-> IF st.err = "ok" THEN st.pkgName ELSE "",
   trace |-> st.trace, sym |-> st.sym]

RunImportSrc ==
  /\ run.dir = NotRun
  /\ run' = [run EXCEPT !.dir = Outcome(finish(run.sc, loadFiles(run.sc, 1, Start)))]
  /\ UNCHANGED <<interpVars, stack, result, active, universe, pd, srcExists, firstName,
                 failStage, histVars>>

RunImportSrcArchive ==
  /\ run.archive = NotRun
  /\ run' = [run EXCEPT !.archive = Outcome(finish(run.sc, loadEntries(run.sc, 1, Start)))]
  /\ UNCHANGED <<interpVars, stack, result, active, universe, pd, srcExists, firstName,
                 failStage, histVars>>

InitRun ==
  /\ srcPkg = [p \in Paths |-> Nil]
  /\ pkgNames = [p \in Paths |-> Absent]
  /\ rdir = [p \in Paths |-> FALSE]
  /\ scopes = [p \in Paths |-> Nil]
  /\ mutex = ""
  /\ frameMutex = ""
  /\ stack = [s \in Sessions |-> <<>>]
  /\ result = [s \in Sessions |-> NoResult]
  /\ active = {}
  /\ universe = {}
  /\ pd = NoCall
  /\ srcExists = [x \in Paths |-> TRUE]
  /\ firstName = [p \in Paths |-> ""]
  /\ failStage = [p \in Paths |-> ""]
  /\ regCount = [p \in Paths |-> 0]
  /\ parsedBy = [p \in Paths |-> {}]
  /\ visited = [p \in Paths |-> {}]
  /\ \E sc \in Scripts : run = [sc |-> sc, dir |-> NotRun, archive |-> NotRun]

NextRun == RunImportSrc \/ RunImportSrcArchive

SpecRun == InitRun /\ [][NextRun]_vars

Next == \E s \in Sessions :
  \/ CallImportSrc(s)
  \/ Lookup(s)
  \/ LookupName(s)
  \/ Resolve(s)
  \/ RdirCheck(s)
  \/ RdirMark(s)
  \/ ReadDir(s)
  \/ FilesEnd(s)
  \/ FileSkip(s)
  \/ FileReadErr(s)
  \/ FileParse(s)
  \/ GtaStart(s)
  \/ GtaImport(s)
  \/ GtaSub(s)
  \/ GtaOk(s)
  \/ GtaErr(s)
  \/ Retry(s)
  \/ Cfg(s)
  \/ LockReg(s)
  \/ SetSrcPkg(s)
  \/ SetPkgNames(s)
  \/ LockFrame(s)
  \/ ResizeFrame(s)
  \/ UnlockFrame(s)
  \/ UnlockReg(s)
  \/ GenRun(s)
  \/ GlobalVars(s)
  \/ AddMain(s)
  \/ RunInit(s)
  \/ CallImportSrcArchive(s)
  \/ ArchiveResolve(s)
  \/ ArchiveMark(s)
  \/ GzipOpen(s)
  \/ TarEOF(s)
  \/ TarErr(s)
  \/ TarSkip(s)
  \/ TarReadErr(s)
  \/ TarParse(s)

Spec == Init /\ [][Next]_vars

\* Two sessions share the interpreter.
InitConc ==
  /\ srcPkg = [p \in Paths |-> Nil]
  /\ pkgNames = [p \in Paths |-> Absent]
  /\ rdir = [p \in Paths |-> FALSE]
  /\ scopes = [p \in Paths |-> Nil]
  /\ mutex = ""
  /\ frameMutex = ""
  /\ stack = [s \in Sessions |-> <<>>]
  /\ result = [s \in Sessions |-> NoResult]
  /\ active = Sessions
  /\ universe \in {{"p"}, {ArchivePath}}
  /\ pd = NoCall
  /\ run = NoRun
  /\ srcExists = [x \in Paths |-> x \in universe]
  /\ firstName = [p \in Paths |-> ""]
  /\ failStage = [p \in Paths |-> ""]
  /\ regCount = [p \in Paths |-> 0]
  /\ parsedBy = [p \in Paths |-> {}]
  /\ visited = [p \in Paths |-> {}]

SpecConc == InitConc /\ [][Next]_vars

(***************************************************************************)
(* Properties of importSrc and importSrcArchive.                           *)
(***************************************************************************)

\* The activations in progress and the results delivered.
Frames == UNION {{stack[s][i] : i \in 1..Len(stack[s])} : s \in Sessions}
Results == ({result[s] : s \in Sessions} \cup {f.sub : f \in Frames}) \ {NoResult}

Unregistered(p) == srcPkg[p] = Nil /\ pkgNames[p] = Absent

\* C1: once importSrc(P) has returned success, a later importSrc(P) only looks the
\* registry up: it returns success with the name the first import returned, never
\* gets past the lookup, and nothing the interpreter holds about P changes again;
\* the record of P was created exactly once.
C1_ReimportIsLookup ==
  /\ [](\A f \in Frames : f.kind = "src" /\ f.late => f.pc \in {"lookup", "lookupName"})
  /\ [](\A r \in Results : r.kind = "src" /\ r.late =>
            r.err = "ok" /\ r.stage = "lookup" /\ r.name = firstName[r.path])
  /\ [](\A p \in SrcPaths : firstName[p] # "" =>
            srcPkg[p] # Nil /\ pkgNames[p] = firstName[p] /\ regCount[p] = 1)
  /\ [][\A p \in SrcPaths : firstName[p] # "" =>
            <<srcPkg[p], pkgNames[p], rdir[p], scopes[p], regCount[p], parsedBy[p]>>'
              = <<srcPkg[p], pkgNames[p], rdir[p], scopes[p], regCount[p], parsedBy[p]>>]_vars

\* A second importSrc(P) has returned after the first succeeded.
C1_Witness ==
  \E s \in Sessions : result[s].kind = "src" /\ result[s].late /\ result[s].err = "ok"

\* C2: an importSrc(P) called while P is being imported fails with the import
\* cycle error, that error fails every import on the cycle, and no package on the
\* cycle is registered.
C2_CycleRejected ==
  /\ \A r \in Results : r.cyc > 0 => r.err = "cycle" /\ Unregistered(r.path)
  /\ \A f \in Frames : f.onCycle > 0 => Unregistered(f.path)

\* The outermost import of a cycle through two packages has returned.
C2_Witness ==
  \E s \in Sessions : result[s].cyc = 2 /\ result[s].err = "cycle" /\ result[s].stage = "declare"

\* C3: an importSrc(P) that returns an error, whatever the step that failed,
\* leaves P out of the registry.
C3_FailedImportUnregistered ==
  \A r \in Results : r.kind = "src" /\ r.err # "ok" => Unregistered(r.path)

\* The evaluator calls of one kind in the log of an activation.
Calls(f, kinds) == {i \in 1..Len(f.log) : f.log[i].k \in kinds}
Rank(e) == CASE e.k = "wire" -> 1 [] e.k = "gvar" -> 2 [] e.k = "init" -> 3 [] e.k = "main" -> 4

\* The run of the initialization nodes is over.
InitDone(f) == f.pc = "runInit" /\ f.ci = Len(f.initNodes)

\* C4: in importSrc and in importSrcArchive alike the evaluator runs, in this
\* order, the entry point of every file in discovery order with a nil frame, the
\* node of the global variables with a nil frame, and the collected initialization
\* nodes in discovery order of their files with the interpreter's frame.
C4_EvaluatorOrder ==
  \A f \in Frames :
    /\ \A i \in 1..(Len(f.log) - 1) :
         /\ Rank(f.log[i]) <= Rank(f.log[i + 1])
         /\ f.log[i].k = "wire" /\ f.log[i + 1].k = "wire" => f.log[i].file < f.log[i + 1].file
         /\ f.log[i].k = "init" /\ f.log[i + 1].k = "init" => f.log[i].file <= f.log[i + 1].file
    /\ \A i \in 1..Len(f.log) :
         f.log[i].frame = IF f.log[i].k \in {"wire", "gvar"} THEN "nil" ELSE "shared"
    /\ Cardinality(Calls(f, {"gvar"})) <= 1
    /\ Calls(f, {"gvar", "init", "main"}) # {} =>
         {f.log[i].file : i \in Calls(f, {"wire"})} = 1..Len(f.rootNodes)
    /\ Calls(f, {"init", "main"}) # {} => Calls(f, {"gvar"}) # {}
    /\ InitDone(f) =>
         /\ Calls(f, {"gvar"}) # {}
         /\ SelectSeq(f.log, LAMBDA e : e.k \in {"init", "main"})
              = [i \in 1..Len(f.initNodes) |->
                   Ran(f.initNodes[i].k, f.initNodes[i].file, "shared")]

\* An archive of two files, each with an initialization node, has been run.
C4_Witness ==
  \E f \in Frames :
    /\ f.kind = "archive" /\ InitDone(f)
    /\ Len(f.rootNodes) = 2
    /\ {f.log[i].file : i \in Calls(f, {"init"})} = {1, 2}

\* C5: main runs at most once per import, after every initialization node, and
\* only when skipTest is set and the package is main; when those hold and main is
\* defined, it does run.
C5_MainLast ==
  \A f \in Frames :
    /\ Cardinality(Calls(f, {"main"})) <= 1
    /\ Calls(f, {"main"}) # {} =>
         /\ f.skipTest /\ f.pkgName = mainID /\ f.hasMain
         /\ \A r \in 1..Len(f.rootNodes) : f.rootNodes[r].pname = mainID
         /\ Calls(f, {"main"}) = {Len(f.log)}
         /\ Cardinality(Calls(f, {"init"}))
              = Cardinality({i \in 1..Len(f.initNodes) : f.initNodes[i].k = "init"})
    /\ InitDone(f) /\ f.skipTest /\ f.pkgName = mainID /\ f.hasMain =>
         Calls(f, {"main"}) # {}

\* main has run after an initialization node.
C5_Witness ==
  \E f \in Frames : Calls(f, {"main"}) # {} /\ Calls(f, {"init"}) # {} /\ f.kind = "src"

\* The steps made with the registry lock held, and with the frame lock held.
RegSection == {"setSrcPkg", "setPkgNames", "lockFrame", "resize", "unlockFrame", "unlockReg"}
FrameSection == {"resize", "unlockFrame"}

\* C6: in every import the frame lock is taken inside the registry lock and
\* released before it, no lock is held outside the registration step, and a
\* session holding a lock is at a step that goes on to release it.
C6_LockDiscipline ==
  \A s \in Sessions :
    /\ mutex = s => stack[s] # <<>> /\ Top(s).pc \in RegSection
    /\ frameMutex = s => mutex = s /\ Top(s).pc \in FrameSection

\* C7: when sessions import the same path concurrently, the registration of the
\* path executes at most once and its files are parsed by at most one session.
C7_BuiltOnce ==
  \A p \in SrcPaths : regCount[p] <= 1 /\ Cardinality(parsedBy[p]) <= 1

\* The stages after the path was marked visiting and before it is registered.
Marked == {"visit", "load", "declare", "retry", "lower"}

AfterNamed == {"lockFrame", "resize", "unlockFrame", "unlockReg", "genRun", "gvars",
               "addMain", "runInit"}

\* C9: with skipTest, files with different package clauses make the import fail
\* in loading with the conflict error, before any lowering and with nothing
\* registered; without skipTest they are no error and the registered name is the
\* package clause of the first parsed file.
C9_NameConflict ==
  /\ \A r \in Results : r.skipTest /\ Cardinality(r.seen) > 1 =>
       r.err = "conflict" /\ r.stage = "load" /\ (r.kind = "src" => Unregistered(r.path))
  /\ \A f \in Frames : f.skipTest => Cardinality(f.seen) <= 1
  /\ \A r \in Results : ~r.skipTest /\ r.stage = "load" => r.err # "conflict"
  /\ \A f \in Frames : ~f.skipTest /\ f.pc \in AfterNamed =>
       pkgNames[f.path] = IF f.rootNodes = <<>> THEN "" ELSE f.rootNodes[1].pname

\* An import with skipTest has failed on two package clauses.
C9_Witness ==
  \E s \in Sessions : result[s].kind = "src" /\ result[s].skipTest /\ result[s].err = "conflict"
                        /\ result[s].stage = "load" /\ Cardinality(result[s].seen) = 2

\* C10: pkgDir returns the first existing candidate of the chain root,
\* previousRoot(root), ..., at each link the vendor directory before the
\* package's own location, with the root that goes with it; the fallback decides
\* only when no candidate exists, and the error is returned only when it fails too.
C10_PkgDirOrder ==
  pd.out # NotCalled =>
    LET c == Candidates(pd.root, pd.path)
        E == {i \in 1..Len(c) : c[i].dir \in pd.dirs}
    IN IF E # {}
         THEN LET i == CHOOSE k \in E : \A j \in E : k <= j
              IN pd.out = [dir |-> c[i].dir, root |-> c[i].root, err |-> "ok"]
         ELSE pd.out = IF pd.fallback THEN Standard(pd.path) ELSE NotFound

\* pkgDir has found the package at the root before the one it was given, the
\* candidates of the given root missing.
C10_Witness ==
  /\ pd.out # NotCalled /\ pd.out.err = "ok"
  /\ previousRoot(pd.root) # pd.root
  /\ pd.out.dir = effectivePkg(previousRoot(pd.root), pd.path)
  /\ pd.out.root = previousRoot(pd.root)
  /\ effectivePkg(pd.root, pd.path) \notin pd.dirs
  /\ pd.dirs # {}

(***************************************************************************)
(* Properties of previousRoot and effectivePkg.                            *)
(***************************************************************************)

\* The positions, from 1, of the vendor segments of a root.
Markers(root) == {i \in 1..Len(root) : root[i] = vendor}

\* C11: previousRoot(root) is empty when root has no vendor segment or its last
\* vendor segment is the first segment, and otherwise the segments before the
\* last vendor segment, which hold one vendor segment fewer than root.
C11_PreviousRoot ==
  /\ previousRoot(<<"a", vendor, "b", vendor, "c">>) = <<"a", vendor, "b">>
  /\ previousRoot(<<vendor, "x">>) = <<>>
  /\ previousRoot(<<"x">>) = <<>>
  /\ pd.out.err = "previousRoot" =>
       LET V == Markers(pd.root)
           last == CHOOSE i \in V : \A j \in V : j <= i
       IN IF V = {} \/ last = 1
            THEN pd.out.dir = <<>>
            ELSE /\ pd.out.dir = SubSeq(pd.root, 1, last - 1)
                 /\ Cardinality(Markers(pd.out.dir)) = Cardinality(V) - 1

\* previousRoot has been called on a root with two vendor segments.
C11_Witness ==
  /\ pd.out.err = "previousRoot"
  /\ Cardinality(Markers(pd.root)) = 2
  /\ pd.out.dir # <<>>

\* root is a prefix of path, segment by segment.
StartsWith(path, root) == Len(root) <= Len(path) /\ SubSeq(path, 1, Len(root)) = root

\* C12: for a non-empty root and a path that starts with the segments of the
\* root, effectivePkg(root, path) is the path.
C12_EffectivePkgPrefix ==
  /\ effectivePkg(<<"a", vendor, "b">>, <<"a", vendor, "b", "c">>) = <<"a", vendor, "b", "c">>
  /\ pd.out.err = "effectivePkg" /\ pd.root # <<>> /\ StartsWith(pd.path, pd.root) =>
       pd.out.dir = pd.path

(***************************************************************************)
(* Further properties of importSrc and importSrcArchive.                   *)
(***************************************************************************)

\* C13: in importSrcArchive a gzip error, an error of the entry header other than
\* the end of the stream, and an error reading an entry's body each make the
\* import return an error from the load phase: no import goes on past a header
\* that could not be read.
C13_ArchiveErrorsReturned ==
  /\ \A f \in Frames : f.pc # "nilHeader"
  /\ \A r \in Results : r.kind = "archive" /\ r.err = "archive" => r.stage = "load"

C15_LookupFirst ==
  /\ \A p \in Paths : regCount[p] <= 1
  /\ \A f \in Frames :
       srcPkg[f.path] # Nil => f.pc \in {"lookup", "lookupName", "setPkgNames"} \cup AfterNamed

\* A session is about to run an initialization node against interp.frame.
Populating(s) ==
  stack[s] # <<>> /\ Top(s).pc = "runInit" /\ Top(s).ci < Len(Top(s).initNodes)
Resizing(s) == stack[s] # <<>> /\ Top(s).pc = "resize"

\* C16: a session that resizes the shared frame or runs an initialization node
\* against it holds the frame lock, so no session writes the frame while another
\* resizes it.
C16_FrameWritesLocked ==
  /\ \A s \in Sessions : Resizing(s) \/ Populating(s) => frameMutex = s
  /\ \A s, u \in Sessions : ~(s # u /\ Resizing(s) /\ Populating(u))
\* The steps of an import that follow the retry pass.
Lowering == {"cfg", "lockReg", "setSrcPkg", "setPkgNames", "lockFrame", "resize",
             "unlockFrame", "unlockReg", "genRun", "gvars", "addMain", "runInit", "panic"}

\* C17: the retry pass starts when the declaration pass has returned for every
\* parsed file and nothing has been lowered or run; an import that lowers has
\* called gtaRetry exactly once if a partition of pending nodes exists and not at
\* all otherwise; an import that gtaRetry failed returned that error from the
\* retry pass and left its path unregistered.
C17_RetryPass ==
  /\ \A f \in Frames :
       /\ f.nretry <= 1
       /\ f.revisit = (f.ngta > 0)
       /\ f.pc = "retry" =>
            /\ f.ngta = Len(f.rootNodes) /\ f.nretry = 0
            /\ f.initNodes = <<>> /\ f.log = <<>>
       /\ f.pc \in Lowering =>
            /\ f.ngta = Len(f.rootNodes)
            /\ f.nretry = IF f.revisit THEN 1 ELSE 0
       /\ f.pc \notin Lowering => f.nretry = 0 /\ f.initNodes = <<>>
  /\ \A r \in Results :
       /\ r.stage = "retry" => r.err = "retry" /\ r.name = ""
       /\ r.stage = "retry" /\ r.kind = "src" => Unregistered(r.path)

\* The retry pass failed an import of two files, and another import lowers the
\* second of its two files after one retry pass.
C17_Witness ==
  /\ \E f \in Frames : f.kind = "src" /\ f.pc = "cfg" /\ f.ci = 1 /\ f.ngta = 2 /\ f.nretry = 1
  /\ \E p \in SrcPaths : failStage[p] = "retry"
\* The activations of a session that have passed the visiting check.
Visiting(s) ==
  {i \in 1..Len(stack[s]) :
     stack[s][i].pc \notin {"lookup", "lookupName", "resolve", "rdirCheck"}}

\* C18: an import in progress is never stopped short of returning a name or an
\* error, and the activations nested in one session that have passed the visiting
\* check never outnumber the import paths.
C18_ImportsReturn ==
  \A s \in Sessions :
    /\ Cardinality(Visiting(s)) <= Cardinality(Paths)
    /\ \A i \in 1..Len(stack[s]) : stack[s][i].pc \notin {"panic", "nilHeader"}

\* C19: a lookup that sees a symbol table for a path also sees its package name:
\* no import returns the 'inconsistent knowledge' error.
C19_RegistryConsistent ==
  /\ \A r \in Results : r.err # "inconsistent"
  /\ \A s \in Sessions :
       stack[s] # <<>> /\ Top(s).pc = "lookupName" => pkgNames[Top(s).path] # Absent

\* C20: a successful importSrc returns the name of the package in the directory
\* its pair of root and import path resolves to, so that directory was visited by
\* an import; and an import rejected as a cycle finds its own directory visited,
\* not another directory of the same import path.
C20_OwnDirectory ==
  \A r \in Results :
    r.kind = "src" /\ r.stage \in {"lookup", "visit", "init"} /\ r.err \in {"ok", "cycle"}
      => r.dir \in visited[r.path]
====
